---------------------------- MODULE Spec2Model ----------------------------
(***************************************************************************)
(* SurfStore (wkcw/Block-Storage): a metadata service (metastore.py), a    *)
(* pool of block stores (blockstore.py) and clients (client.py).           *)
(*                                                                         *)
(* The metadata handlers run one thread per RPC; every handler takes the   *)
(* module-level mutex.  modify_file calls has_block on the block stores    *)
(* while it holds the mutex, so its probes interleave with store_block     *)
(* calls of other processes: it is modelled as begin / probe / commit      *)
(* steps.  delete_file and read_file touch only the registry under the     *)
(* mutex and are one step each.  Block store handlers are single dict      *)
(* operations and are one step each.                                       *)
(*                                                                         *)
(* The client operations are the methods upload, delete and download of a  *)
(* connected SurfStoreClient.  SurfStoreClient.__init__ is not modelled:   *)
(* as written, _init_nearest_server raises NameError (client.py line 62),  *)
(* so the command line of client.py never reaches a method.                *)
(***************************************************************************)
EXTENDS Integers, Sequences, FiniteSets, TLC

\* ------------------------------------------------------------------ bounds
MaxOps == 3        \* client operations (upload, delete, download) started in a run

\* ------------------------------------------------------- the configuration
num_block_stores == 2                 \* "B: <N>" of the config file
Stores == 0 .. (num_block_stores - 1)
Clients == {1, 2}                     \* RPC connections (one thread each)
Files == {"a", "b"}                   \* filenames
Chunks == {1, 2}                      \* contents of a 4096-byte chunk

Range(s) == {s[i] : i \in 1 .. Len(s)}

\* ------------------------------------------------------------- hex hashes
\* A hash is a hex string, kept as the sequence of its characters.
DigitVal(ch) ==
    CASE ch = "0" -> 0  [] ch = "1" -> 1  [] ch = "2" -> 2  [] ch = "3" -> 3
      [] ch = "4" -> 4  [] ch = "5" -> 5  [] ch = "6" -> 6  [] ch = "7" -> 7
      [] ch = "8" -> 8  [] ch = "9" -> 9  [] ch = "a" -> 10 [] ch = "b" -> 11
      [] ch = "c" -> 12 [] ch = "d" -> 13 [] ch = "e" -> 14 [] ch = "f" -> 15

\* the strings int(h, 16) accepts; it raises ValueError for any other
HexDigits == {"0", "1", "2", "3", "4", "5", "6", "7", "8", "9",
              "a", "b", "c", "d", "e", "f"}
IsHex(h) == h # <<>> /\ \A i \in 1 .. Len(h) : h[i] \in HexDigits

RECURSIVE HexInt(_)
\* int(h, 16)
HexInt(h) ==
    IF h = <<>> THEN 0
    ELSE 16 * HexInt(SubSeq(h, 1, Len(h) - 1)) + DigitVal(h[Len(h)])

\* hashlib.sha256(data).hexdigest(): a fixed injective digest per chunk
\* content (collision-free stand-in for SHA-256).
Digests == << <<"a">>, <<"1", "b">>, <<"2", "0">>, <<"f">> >>
Sha256(data) == Digests[data]

Hashes == {Sha256(b) : b \in Chunks}

\* contents of the local files a client uploads, as chunk sequences: the empty
\* file, one chunk, two different chunks, the same chunk twice
LocalFiles == {<<>>, <<1>>, <<1, 2>>, <<2, 2>>}
\* contents of the regular files found in a download's destination directory
LocalDirs == {{}, {<<1>>}}

\* ------------------------------------------------------------------- state
VARIABLES
    name_file_map,    \* MetadataStore._name_file_map: filename -> FileMetaData
    hash_block_map,   \* per store, BlockStore._hash_block_map: hash -> block
    mutex,            \* metastore.mutex: 0 free, else the connection holding it
    rpc,              \* per connection: the metadata call in flight / its result
    cl,               \* per client process: locals and position of its operation
    nops,             \* client operations started so far
    bsRes,            \* the last raw block store call and its outcome
    \* history variables, read by no action
    entry,            \* registry as the running modify_file found it
    succeeded,        \* filenames with at least one successful modify/delete
    lastWrite,        \* per filename: the last successful modify/delete
    lastStored        \* per store and hash: block of the last store_block

vars == <<name_file_map, hash_block_map, mutex, rpc, cl, nops, bsRes,
          entry, succeeded, lastWrite, lastStored>>

EmptyMap == [x \in {} |-> 0]

\* class FileMetaData
FileMetaData == [ver |-> 0, hashlist |-> <<>>, tombstone |-> FALSE]

\* peers: outcomes of the modify_file calls for the same filename and version
\* that returned while this call was in flight (history)
\* probed: the hashes the running modify_file has asked has_block about (history)
IdleRpc == [pc |-> "idle", op |-> "none", filename |-> "", version |-> 0,
            hashlist |-> <<>>, i |-> 0, ret_hashlist |-> <<>>,
            res |-> "none", rver |-> 0, rhl |-> <<>>, peers |-> {},
            probed |-> <<>>]

IdleCl == [pc |-> "idle", op |-> "none", filename |-> "", file_block_list |-> <<>>,
           file_block_hash_list |-> <<>>, version_number |-> 0, todo |-> <<>>,
           hash_block_dict |-> EmptyMap, out |-> "", written |-> <<>>,
           held |-> FALSE, repaired |-> FALSE]

NoRes == [op |-> "none", store |-> 0, h |-> <<>>, res |-> "none", val |-> 0]
\* prev, pver: the kind of the write before it and the version read_file gave then
NoWrite == [kind |-> "none", ver |-> 0, hashlist |-> <<>>, prev |-> "none", pver |-> 0]

Init ==
    /\ name_file_map = EmptyMap
    /\ hash_block_map = [s \in Stores |-> EmptyMap]
    /\ mutex = 0
    /\ rpc = [c \in Clients |-> IdleRpc]
    /\ cl = [c \in Clients |-> IdleCl]
    /\ nops = 0
    /\ bsRes = NoRes
    /\ entry = [c \in Clients |-> EmptyMap]
    /\ succeeded = {}
    /\ lastWrite = [f \in Files |-> NoWrite]
    /\ lastStored = [s \in Stores |-> EmptyMap]

\* ------------------------------------------------------------ block store
\* the store that owns hash h in the design: int(h, 16) mod N
Owner(h) == HexInt(h) % num_block_stores

\* mutant: a metadata service that looks for a block on the next store
_find_server_Next(h) == (HexInt(h) + 1) % num_block_stores

\* MetadataStore._find_server
_find_server(h) == HexInt(h) % num_block_stores

\* mutant: a client that sends every block to store 0
client_find_server_Zero(h) == 0

\* SurfStoreClient._find_server
client_find_server(h) == HexInt(h) % num_block_stores

\* BlockStore.exposed_has_block
has_block(s, h) == h \in DOMAIN hash_block_map[s]

\* d[h] = block on a dict
DictSet(d, h, block) == [x \in DOMAIN d \cup {h} |-> IF x = h THEN block ELSE d[x]]

\* mutant: store_block that keeps the block already held under h
StoredMap_KeepFirst(m, h, block) == IF h \in DOMAIN m THEN m ELSE DictSet(m, h, block)

\* BlockStore.exposed_store_block
StoredMap(m, h, block) == DictSet(m, h, block)

store_block(s, h, block) ==
    /\ hash_block_map' = [hash_block_map EXCEPT ![s] = StoredMap(@, h, block)]
    /\ lastStored' = [lastStored EXCEPT ![s] = DictSet(@, h, block)]

\* BlockStore.exposed_get_block: self._hash_block_map[h], KeyError if absent
get_block(s, h) ==
    IF h \in DOMAIN hash_block_map[s]
    THEN [res |-> "ok", val |-> hash_block_map[s][h]]
    ELSE [res |-> "KeyError", val |-> 0]

\* mutant: a probe that reports every block as present
_check_blockstore_AlwaysTrue(h) == TRUE

\* MetadataStore._check_blockstore
_check_blockstore(h) == has_block(_find_server(h), h)

\* ------------------------------------------------ metadata service handlers
\* mutant: handlers that do not wait for the mutex
Locked_Never == FALSE

\* mutex.acquire() blocks while another handler holds the mutex
Locked == mutex # 0

\* mutant: no version test
VersionOk_NoCheck(stored_file, version) == TRUE

\* the version test of modify_file and delete_file
VersionOk(stored_file, version) == stored_file.ver + 1 = version

InFlight(c) == rpc[c].pc \in {"req", "probe"}

\* A connection sends a request: its handler thread starts and waits for the mutex.
Issue(c, op, f, v, hl) ==
    rpc' = [rpc EXCEPT ![c] = [IdleRpc EXCEPT !.pc = "req", !.op = op,
                                  !.filename = f, !.version = v, !.hashlist = hl]]

\* The handler of c returns or raises: the caller gets (res, rver, rhl).
Return(c, res, rver, rhl) ==
    rpc' = [d \in Clients |->
              IF d = c
              THEN [rpc[c] EXCEPT !.pc = "ret", !.res = res, !.rver = rver,
                                  !.rhl = rhl, !.i = 0, !.ret_hashlist = <<>>,
                                  !.probed = <<>>]
              ELSE IF /\ InFlight(d) /\ rpc[d].op = "modify" /\ rpc[c].op = "modify"
                      /\ rpc[d].filename = rpc[c].filename
                      /\ rpc[d].version = rpc[c].version
              THEN [rpc[d] EXCEPT !.peers = @ \cup {res}]
              ELSE rpc[d]]

\* mutant: read_file that ignores the tombstone
read_file_NoTombstone(map, f) ==
    IF f \in DOMAIN map THEN <<map[f].ver, map[f].hashlist>> ELSE <<0, <<>>>>

\* what exposed_read_file returns for filename f on the registry map
read_file(map, f) ==
    IF f \notin DOMAIN map THEN <<0, <<>>>>
    ELSE IF map[f].tombstone THEN <<map[f].ver, <<>>>>
    ELSE <<map[f].ver, map[f].hashlist>>

\* The registry after modify_file's get-or-create of the record of f.
ModifyLookup(f) ==
    IF f \in DOMAIN name_file_map
    THEN name_file_map
    ELSE DictSet(name_file_map, f, FileMetaData)

\* exposed_modify_file, from mutex.acquire() to the version test
ModifyBegin(c) ==
    /\ rpc[c].pc = "req" /\ rpc[c].op = "modify"
    /\ ~Locked
    /\ LET f == rpc[c].filename
           map1 == ModifyLookup(f)
           stored_file == map1[f]
       IN /\ name_file_map' = map1
          /\ IF ~VersionOk(stored_file, rpc[c].version)
             THEN /\ Return(c, "WrongVersion", stored_file.ver, <<>>)
                  /\ mutex' = 0
                  /\ UNCHANGED entry
             ELSE /\ rpc' = [rpc EXCEPT ![c].pc = "probe", ![c].i = 1]
                  /\ mutex' = c
                  /\ entry' = [entry EXCEPT ![c] = name_file_map]
    /\ UNCHANGED <<hash_block_map, cl, nops, bsRes, succeeded, lastWrite, lastStored>>

\* one iteration of "for new_hashval in hashlist"
ModifyProbe(c) ==
    /\ rpc[c].pc = "probe"
    /\ rpc[c].i <= Len(rpc[c].hashlist)
    /\ \/ rpc[c].hashlist[rpc[c].i] \in Range(name_file_map[rpc[c].filename].hashlist)
       \/ IsHex(rpc[c].hashlist[rpc[c].i])
    /\ LET new_hashval == rpc[c].hashlist[rpc[c].i]
           stored_file == name_file_map[rpc[c].filename]
           skipped == new_hashval \in Range(stored_file.hashlist)
           missing == ~skipped /\ ~_check_blockstore(new_hashval)
       IN rpc' = [rpc EXCEPT ![c].i = @ + 1,
                             ![c].ret_hashlist =
                                 IF missing THEN Append(@, new_hashval) ELSE @,
                             ![c].probed =
                                 IF skipped THEN @ ELSE Append(@, new_hashval)]
    /\ UNCHANGED <<name_file_map, hash_block_map, mutex, cl, nops, bsRes,
                   entry, succeeded, lastWrite, lastStored>>

\* an iteration of the loop in which _check_blockstore raises: int(h, 16)
\* fails with ValueError, or the has_block call fails with a transport error.
\* The exception leaves exposed_modify_file and reaches the caller; no
\* mutex.release() is on that path, so the handler thread keeps the mutex.
ModifyProbeRaises(c) ==
    /\ rpc[c].pc = "probe"
    /\ rpc[c].i <= Len(rpc[c].hashlist)
    /\ LET new_hashval == rpc[c].hashlist[rpc[c].i]
           stored_file == name_file_map[rpc[c].filename]
       IN /\ new_hashval \notin Range(stored_file.hashlist)
          /\ \E error \in {"ValueError", "EOFError"} :
                /\ error = "ValueError" <=> ~IsHex(new_hashval)
                /\ Return(c, error, 0, <<>>)
    /\ entry' = [entry EXCEPT ![c] = EmptyMap]
    /\ UNCHANGED <<name_file_map, hash_block_map, mutex, cl, nops, bsRes,
                   succeeded, lastWrite, lastStored>>

\* mutant: a commit that leaves the tombstone as it was
ModifiedRecord_KeepTombstone(stored_file, version, hashlist) ==
    [stored_file EXCEPT !.hashlist = hashlist, !.ver = version]

\* the record a successful modify_file leaves
ModifiedRecord(stored_file, version, hashlist) ==
    [stored_file EXCEPT !.hashlist = hashlist, !.tombstone = FALSE, !.ver = version]

\* exposed_modify_file after the loop: raise missing_blocks, or commit
ModifyCommit(c) ==
    /\ rpc[c].pc = "probe"
    /\ rpc[c].i > Len(rpc[c].hashlist)
    /\ LET f == rpc[c].filename IN
       IF Len(rpc[c].ret_hashlist) # 0
       THEN /\ Return(c, "MissingBlocks", 0, rpc[c].ret_hashlist)
            /\ UNCHANGED <<name_file_map, succeeded, lastWrite>>
       ELSE /\ name_file_map' = [name_file_map EXCEPT ![f] =
                    ModifiedRecord(@, rpc[c].version, rpc[c].hashlist)]
            /\ Return(c, "ok", 0, <<>>)
            /\ succeeded' = succeeded \cup {f}
            /\ lastWrite' = [lastWrite EXCEPT ![f] =
                    [kind |-> "modify", ver |-> rpc[c].version,
                     hashlist |-> rpc[c].hashlist, prev |-> lastWrite[f].kind,
                     pver |-> read_file(name_file_map, f)[1]]]
    /\ mutex' = 0
    /\ entry' = [entry EXCEPT ![c] = EmptyMap]
    /\ UNCHANGED <<hash_block_map, cl, nops, bsRes, lastStored>>

\* the record a successful delete_file leaves
DeletedRecord(stored_file, version) ==
    [stored_file EXCEPT !.ver = version, !.tombstone = TRUE]

\* exposed_delete_file
DeleteFile(c) ==
    /\ rpc[c].pc = "req" /\ rpc[c].op = "delete"
    /\ ~Locked
    /\ LET f == rpc[c].filename IN
       IF f \notin DOMAIN name_file_map
       THEN /\ Return(c, "FileNotFound", 0, <<>>)
            /\ UNCHANGED <<name_file_map, succeeded, lastWrite>>
       ELSE IF ~VersionOk(name_file_map[f], rpc[c].version)
       THEN /\ Return(c, "WrongVersion", name_file_map[f].ver, <<>>)
            /\ UNCHANGED <<name_file_map, succeeded, lastWrite>>
       ELSE /\ name_file_map' = [name_file_map EXCEPT ![f] =
                    DeletedRecord(@, rpc[c].version)]
            /\ Return(c, "ok", 0, <<>>)
            /\ succeeded' = succeeded \cup {f}
            /\ lastWrite' = [lastWrite EXCEPT ![f] =
                    [kind |-> "delete", ver |-> rpc[c].version, hashlist |-> <<>>,
                     prev |-> lastWrite[f].kind, pver |-> read_file(name_file_map, f)[1]]]
    /\ mutex' = 0
    /\ UNCHANGED <<hash_block_map, cl, nops, bsRes, entry, lastStored>>

\* exposed_read_file
ReadFile(c) ==
    /\ rpc[c].pc = "req" /\ rpc[c].op = "read"
    /\ ~Locked
    /\ LET r == read_file(name_file_map, rpc[c].filename)
       IN Return(c, "ok", r[1], r[2])
    /\ mutex' = 0
    /\ UNCHANGED <<name_file_map, hash_block_map, cl, nops, bsRes,
                   entry, succeeded, lastWrite, lastStored>>

\* ------------------------------------------------------------------ client
\* An operation ends: its locals are dropped, stdout and the written file stay.
Finish(c, out, written) ==
    cl' = [cl EXCEPT ![c] = [IdleCl EXCEPT !.out = out, !.written = written]]

\* upload: the hash list of the chunks read from the local file
HashList(file_block_list) ==
    [i \in 1 .. Len(file_block_list) |-> Sha256(file_block_list[i])]

\* upload: filepath is not a file on disk
UploadNotAFile(c) ==
    /\ cl[c].pc = "idle" /\ nops < MaxOps
    /\ nops' = nops + 1
    /\ cl' = [cl EXCEPT ![c] = [IdleCl EXCEPT !.out = "Not Found"]]
    /\ UNCHANGED <<name_file_map, hash_block_map, mutex, rpc, bsRes,
                   entry, succeeded, lastWrite, lastStored>>

\* upload, up to the read_file call
UploadStart(c) ==
    /\ cl[c].pc = "idle" /\ nops < MaxOps
    /\ nops' = nops + 1
    /\ \E f \in Files, data \in LocalFiles :
          /\ cl' = [cl EXCEPT ![c] = [IdleCl EXCEPT !.pc = "upload_read", !.op = "upload",
                        !.filename = f, !.file_block_list = data,
                        !.file_block_hash_list = HashList(data),
                        \* history: every chunk is on its owning store already
                        !.held = \A h \in Range(HashList(data)) :
                                     h \in DOMAIN hash_block_map[Owner(h)]]]
          /\ Issue(c, "read", f, 0, <<>>)
    /\ UNCHANGED <<name_file_map, hash_block_map, mutex, bsRes,
                   entry, succeeded, lastWrite, lastStored>>

\* upload: version_number = version_number + 1, first modify_file call
UploadModify(c) ==
    /\ cl[c].pc = "upload_read" /\ rpc[c].pc = "ret"
    /\ cl' = [cl EXCEPT ![c].pc = "upload_modify", ![c].version_number = rpc[c].rver + 1]
    /\ Issue(c, "modify", cl[c].filename, rpc[c].rver + 1, cl[c].file_block_hash_list)
    /\ UNCHANGED <<name_file_map, hash_block_map, mutex, nops, bsRes,
                   entry, succeeded, lastWrite, lastStored>>

RECURSIVE UploadKeys(_, _, _, _)
\* _upload_missing_blocks: the keys of server_upload_list[s] in insertion order,
\* as indices into the hash list (first occurrence of each key)
UploadKeys(s, hl, missing_blocks, i) ==
    IF i > Len(hl) THEN <<>>
    ELSE (IF /\ hl[i] \in Range(missing_blocks)
             /\ client_find_server(hl[i]) = s
             /\ \A j \in 1 .. (i - 1) : hl[j] # hl[i]
          THEN <<i>> ELSE <<>>) \o UploadKeys(s, hl, missing_blocks, i + 1)

\* the value the dict holds for key hl[i]: the block of its last occurrence
UploadValue(blocks, hl, i) ==
    blocks[CHOOSE j \in 1 .. Len(hl) :
              hl[j] = hl[i] /\ \A k \in (j + 1) .. Len(hl) : hl[k] # hl[i]]

RECURSIVE UploadList(_, _, _, _)
\* _upload_missing_blocks: the store_block calls it makes, in order
UploadList(blocks, hl, missing_blocks, s) ==
    IF s >= num_block_stores THEN <<>>
    ELSE LET keys == UploadKeys(s, hl, missing_blocks, 1)
         IN [k \in 1 .. Len(keys) |->
                [server |-> s, h |-> hl[keys[k]],
                 block |-> UploadValue(blocks, hl, keys[k])]]
            \o UploadList(blocks, hl, missing_blocks, s + 1)

\* mutant: a retry that keeps the version the server reported
RetryVersion_Same(current_version) == current_version

\* upload: version_number = e.current_version + 1
RetryVersion(current_version) == current_version + 1

\* upload: the outcome of a modify_file call
UploadResult(c) ==
    /\ cl[c].pc = "upload_modify" /\ rpc[c].pc = "ret"
    /\ CASE rpc[c].res = "ok" ->
              /\ Finish(c, "OK", <<>>)
              /\ rpc' = [rpc EXCEPT ![c] = IdleRpc]
         [] rpc[c].res = "MissingBlocks" ->
              LET todo == UploadList(cl[c].file_block_list, cl[c].file_block_hash_list,
                                     rpc[c].rhl, 0)
              IN IF todo = <<>>
                 THEN /\ UNCHANGED cl
                      /\ Issue(c, "modify", cl[c].filename, cl[c].version_number,
                               cl[c].file_block_hash_list)
                 ELSE /\ cl' = [cl EXCEPT ![c].pc = "upload_store", ![c].todo = todo]
                      /\ rpc' = [rpc EXCEPT ![c] = IdleRpc]
         [] rpc[c].res = "WrongVersion" ->
              /\ cl' = [cl EXCEPT ![c].version_number = RetryVersion(rpc[c].rver)]
              /\ Issue(c, "modify", cl[c].filename, RetryVersion(rpc[c].rver),
                       cl[c].file_block_hash_list)
    /\ UNCHANGED <<name_file_map, hash_block_map, mutex, nops, bsRes,
                   entry, succeeded, lastWrite, lastStored>>

\* _upload_missing_blocks: one store_block call; after the last one the loop
\* of upload calls modify_file again.  mark: whether the history field
\* 'repaired' records the completed round.
UploadStoreStep(c, mark) ==
    /\ cl[c].pc = "upload_store"
    /\ LET job == Head(cl[c].todo) IN store_block(job.server, job.h, job.block)
    /\ IF Len(cl[c].todo) = 1
       THEN /\ cl' = [cl EXCEPT ![c].pc = "upload_modify", ![c].todo = <<>>,
                                \* history: a repair round has been completed
                                ![c].repaired = mark]
            /\ Issue(c, "modify", cl[c].filename, cl[c].version_number,
                     cl[c].file_block_hash_list)
       ELSE /\ cl' = [cl EXCEPT ![c].todo = Tail(@)]
            /\ UNCHANGED rpc
    /\ UNCHANGED <<name_file_map, mutex, nops, bsRes, entry, succeeded, lastWrite>>

UploadStoreBlock(c) == UploadStoreStep(c, FALSE)

\* the same step, recording the completed repair round
UploadStoreBlockRepaired(c) == UploadStoreStep(c, TRUE)

\* delete, up to the read_file call
DeleteStart(c) ==
    /\ cl[c].pc = "idle" /\ nops < MaxOps
    /\ nops' = nops + 1
    /\ \E f \in Files :
          /\ cl' = [cl EXCEPT ![c] = [IdleCl EXCEPT !.pc = "delete_read", !.op = "delete",
                                                    !.filename = f]]
          /\ Issue(c, "read", f, 0, <<>>)
    /\ UNCHANGED <<name_file_map, hash_block_map, mutex, bsRes,
                   entry, succeeded, lastWrite, lastStored>>

\* delete: version_number = version_number + 1, first delete_file call
DeleteCall(c) ==
    /\ cl[c].pc = "delete_read" /\ rpc[c].pc = "ret"
    /\ cl' = [cl EXCEPT ![c].pc = "delete_delete", ![c].version_number = rpc[c].rver + 1]
    /\ Issue(c, "delete", cl[c].filename, rpc[c].rver + 1, <<>>)
    /\ UNCHANGED <<name_file_map, hash_block_map, mutex, nops, bsRes,
                   entry, succeeded, lastWrite, lastStored>>

\* delete: the outcome of a delete_file call
DeleteResult(c) ==
    /\ cl[c].pc = "delete_delete" /\ rpc[c].pc = "ret"
    /\ CASE rpc[c].res = "ok" ->
              /\ Finish(c, "OK", <<>>)
              /\ rpc' = [rpc EXCEPT ![c] = IdleRpc]
         [] rpc[c].res = "WrongVersion" ->
              /\ cl' = [cl EXCEPT ![c].version_number = rpc[c].rver + 1]
              /\ Issue(c, "delete", cl[c].filename, rpc[c].rver + 1, <<>>)
         [] rpc[c].res = "FileNotFound" ->
              /\ Finish(c, "Not Found", <<>>)
              /\ rpc' = [rpc EXCEPT ![c] = IdleRpc]
    /\ UNCHANGED <<name_file_map, hash_block_map, mutex, nops, bsRes,
                   entry, succeeded, lastWrite, lastStored>>

\* download, up to the read_file call
DownloadStart(c) ==
    /\ cl[c].pc = "idle" /\ nops < MaxOps
    /\ nops' = nops + 1
    /\ \E f \in Files, location \in LocalDirs :
          /\ cl' = [cl EXCEPT ![c] = [IdleCl EXCEPT !.pc = "download_read",
                        !.op = "download", !.filename = f,
                        \* the chunks of the files in location, by hash
                        !.hash_block_dict =
                            [h \in {Sha256(data[i]) : <<data, i>> \in
                                      {di \in location \X (1 .. 2) : di[2] <= Len(di[1])}}
                               |-> CHOOSE b \in Chunks : Sha256(b) = h]]]
          /\ Issue(c, "read", f, 0, <<>>)
    /\ UNCHANGED <<name_file_map, hash_block_map, mutex, bsRes,
                   entry, succeeded, lastWrite, lastStored>>

RECURSIVE DownloadList(_, _, _)
\* mutant: a download that fetches every hash of the hashlist
DownloadList_All(hl, dict, s) ==
    [k \in 1 .. Len(hl) |-> [server |-> client_find_server(hl[k]), h |-> hl[k]]]

\* _download_missing_blocks: the get_block calls it makes, in order
DownloadList(hl, dict, s) ==
    IF s >= num_block_stores THEN <<>>
    ELSE LET Mine(h) == h \notin DOMAIN dict /\ client_find_server(h) = s
         IN [k \in 1 .. Len(SelectSeq(hl, Mine)) |->
                [server |-> s, h |-> SelectSeq(hl, Mine)[k]]]
            \o DownloadList(hl, dict, s + 1)

\* the file download writes: the cached block of every hash, in hashlist order
WrittenFile(hl, dict) == [i \in 1 .. Len(hl) |-> dict[hl[i]]]

\* download: the outcome of read_file, and the scan of the destination directory
DownloadScan(c) ==
    /\ cl[c].pc = "download_read" /\ rpc[c].pc = "ret"
    /\ rpc' = [rpc EXCEPT ![c] = IdleRpc]
    /\ LET hl == rpc[c].rhl
           dict == [h \in DOMAIN cl[c].hash_block_dict \cap Range(hl) |->
                       cl[c].hash_block_dict[h]]
           todo == DownloadList(hl, dict, 0)
       IN IF hl = <<>> THEN Finish(c, "Not Found", <<>>)
          ELSE IF todo = <<>> THEN Finish(c, "OK", WrittenFile(hl, dict))
          ELSE cl' = [cl EXCEPT ![c].pc = "download_get", ![c].file_block_hash_list = hl,
                                ![c].hash_block_dict = dict, ![c].todo = todo]
    /\ UNCHANGED <<name_file_map, hash_block_map, mutex, nops, bsRes,
                   entry, succeeded, lastWrite, lastStored>>

\* _download_missing_blocks: one get_block call; after the last one download
\* writes the file.  A KeyError of get_block is caught nowhere: download ends.
DownloadGetBlock(c) ==
    /\ cl[c].pc = "download_get"
    /\ LET job == Head(cl[c].todo)
           r == get_block(job.server, job.h)
           dict == DictSet(cl[c].hash_block_dict, job.h, r.val)
       IN IF r.res # "ok" THEN Finish(c, "", <<>>)
          ELSE IF Len(cl[c].todo) = 1
          THEN Finish(c, "OK", WrittenFile(cl[c].file_block_hash_list, dict))
          ELSE cl' = [cl EXCEPT ![c].todo = Tail(@), ![c].hash_block_dict = dict]
    /\ UNCHANGED <<name_file_map, hash_block_map, mutex, rpc, nops, bsRes,
                   entry, succeeded, lastWrite, lastStored>>

\* ------------------------------------------------------- raw block store calls
\* Any program may call the exposed methods of a block store with any arguments.
RawStoreBlock ==
    /\ \E s \in Stores, h \in Hashes, block \in Chunks :
          /\ store_block(s, h, block)
          /\ bsRes' = [op |-> "store", store |-> s, h |-> h, res |-> "ok", val |-> block]
    /\ UNCHANGED <<name_file_map, mutex, rpc, cl, nops, entry, succeeded, lastWrite>>

RawGetBlock ==
    /\ \E s \in Stores, h \in Hashes :
          LET r == get_block(s, h)
          IN bsRes' = [op |-> "get", store |-> s, h |-> h, res |-> r.res, val |-> r.val]
    /\ UNCHANGED <<name_file_map, hash_block_map, mutex, rpc, cl, nops,
                   entry, succeeded, lastWrite, lastStored>>

RawHasBlock ==
    /\ \E s \in Stores, h \in Hashes :
          bsRes' = [op |-> "has", store |-> s, h |-> h, res |-> "ok",
                    val |-> IF has_block(s, h) THEN 1 ELSE 0]
    /\ UNCHANGED <<name_file_map, hash_block_map, mutex, rpc, cl, nops,
                   entry, succeeded, lastWrite, lastStored>>

\* ---------------------------------------------------------- specifications
\* Clients run uploads, deletes and downloads against the services.
Next ==
    \/ \E c \in Clients : UploadNotAFile(c)
    \/ \E c \in Clients : UploadStart(c)
    \/ \E c \in Clients : UploadModify(c)
    \/ \E c \in Clients : UploadResult(c)
    \/ \E c \in Clients : UploadStoreBlock(c)
    \/ \E c \in Clients : DeleteStart(c)
    \/ \E c \in Clients : DeleteCall(c)
    \/ \E c \in Clients : DeleteResult(c)
    \/ \E c \in Clients : DownloadStart(c)
    \/ \E c \in Clients : DownloadScan(c)
    \/ \E c \in Clients : DownloadGetBlock(c)
    \/ \E c \in Clients : ModifyBegin(c)
    \/ \E c \in Clients : ModifyProbe(c)
    \/ \E c \in Clients : ModifyCommit(c)
    \/ \E c \in Clients : DeleteFile(c)
    \/ \E c \in Clients : ReadFile(c)

Spec == Init /\ [][Next]_vars

\* The block stores under arbitrary RPC callers.
NextBlock == RawStoreBlock \/ RawGetBlock \/ RawHasBlock

SpecBlock == Init /\ [][NextBlock]_vars

\* Uploads (of a one-chunk and a two-chunk file that share a chunk) and deletes
\* of one filename, with fair scheduling: the thread of a
\* connection and the client waiting on it form one sequential process, and a
\* process that can take a step eventually takes one.  Starting a new operation
\* is not forced.
Progress(c) ==
    \/ UploadModify(c) \/ UploadResult(c) \/ UploadStoreBlock(c)
    \/ DeleteCall(c) \/ DeleteResult(c)
    \/ ModifyBegin(c) \/ ModifyProbe(c) \/ ModifyCommit(c)
    \/ DeleteFile(c) \/ ReadFile(c)

NextLive ==
    \/ \E c \in Clients : /\ UploadStart(c) /\ cl'[c].filename = "a"
                           /\ cl'[c].file_block_list \in {<<1>>, <<1, 2>>}
    \/ \E c \in Clients : DeleteStart(c) /\ cl'[c].filename = "a"
    \/ \E c \in Clients : UploadModify(c)
    \/ \E c \in Clients : UploadResult(c)
    \/ \E c \in Clients : UploadStoreBlock(c)
    \/ \E c \in Clients : DeleteCall(c)
    \/ \E c \in Clients : DeleteResult(c)
    \/ \E c \in Clients : ModifyBegin(c)
    \/ \E c \in Clients : ModifyProbe(c)
    \/ \E c \in Clients : ModifyCommit(c)
    \/ \E c \in Clients : DeleteFile(c)
    \/ \E c \in Clients : ReadFile(c)

SpecLive == Init /\ [][NextLive]_vars /\ \A c \in Clients : WF_vars(Progress(c))

\* Every client uploads the same filename once, at the same time or one after
\* the other, and nothing else runs.  The race starts on an empty registry or
\* on the state one earlier upload of a one-chunk file leaves (nops counts that
\* upload).
InitRace ==
    \/ Init
    \/ LET h == Sha256(1)
           held == [s \in Stores |-> IF s = _find_server(h)
                                     THEN DictSet(EmptyMap, h, 1) ELSE EmptyMap]
       IN /\ name_file_map =
                DictSet(EmptyMap, "a", ModifiedRecord(FileMetaData, 1, <<h>>))
          /\ hash_block_map = held
          /\ mutex = 0
          /\ rpc = [c \in Clients |-> IdleRpc]
          /\ cl = [c \in Clients |-> IdleCl]
          /\ nops = 1
          /\ bsRes = NoRes
          /\ entry = [c \in Clients |-> EmptyMap]
          /\ succeeded = {"a"}
          /\ lastWrite = [f \in Files |->
                IF f = "a" THEN [kind |-> "modify", ver |-> 1, hashlist |-> <<h>>,
                                 prev |-> "none", pver |-> 0]
                ELSE NoWrite]
          /\ lastStored = held

NextRace ==
    \/ \E c \in Clients : /\ cl[c].out = ""
                           /\ UploadStart(c) /\ cl'[c].filename = "a"
    \/ \E c \in Clients : UploadModify(c)
    \/ \E c \in Clients : UploadResult(c)
    \/ \E c \in Clients : UploadStoreBlock(c)
    \/ \E c \in Clients : ModifyBegin(c)
    \/ \E c \in Clients : ModifyProbe(c)
    \/ \E c \in Clients : ModifyCommit(c)
    \/ \E c \in Clients : ReadFile(c)

SpecRace == InitRace /\ [][NextRace]_vars

\* Uploads and deletes of one filename, with the repair rounds recorded.
NextRepair ==
    \/ \E c \in Clients : UploadStart(c) /\ cl'[c].filename = "a"
    \/ \E c \in Clients : DeleteStart(c) /\ cl'[c].filename = "a"
    \/ \E c \in Clients : UploadModify(c)
    \/ \E c \in Clients : UploadResult(c)
    \/ \E c \in Clients : UploadStoreBlockRepaired(c)
    \/ \E c \in Clients : DeleteCall(c)
    \/ \E c \in Clients : DeleteResult(c)
    \/ \E c \in Clients : ModifyBegin(c)
    \/ \E c \in Clients : ModifyProbe(c)
    \/ \E c \in Clients : ModifyCommit(c)
    \/ \E c \in Clients : DeleteFile(c)
    \/ \E c \in Clients : ReadFile(c)

SpecRepair == Init /\ [][NextRepair]_vars

\* Any program may call the exposed methods of the metadata service with any
\* arguments, here on one filename, and a has_block call may fail.
BadHash == <<"g">>

RawMetadataCall(c) ==
    /\ rpc[c].pc \in {"idle", "ret"} /\ nops < MaxOps
    /\ nops' = nops + 1
    /\ \E op \in {"modify", "delete", "read"}, version \in {1, 2},
          hashlist \in {<<>>, <<Sha256(1)>>, <<BadHash>>} :
          /\ op # "modify" => hashlist = <<>>
          /\ op = "read" => version = 1
          /\ Issue(c, op, "a", IF op = "read" THEN 0 ELSE version, hashlist)
    /\ UNCHANGED <<name_file_map, hash_block_map, mutex, cl, bsRes,
                   entry, succeeded, lastWrite, lastStored>>

NextFault ==
    \/ \E c \in Clients : RawMetadataCall(c)
    \/ \E c \in Clients : ModifyBegin(c)
    \/ \E c \in Clients : ModifyProbe(c)
    \/ \E c \in Clients : ModifyProbeRaises(c)
    \/ \E c \in Clients : ModifyCommit(c)
    \/ \E c \in Clients : DeleteFile(c)
    \/ \E c \in Clients : ReadFile(c)

SpecFault == Init /\ [][NextFault]_vars

\* ------------------------------------------------------------------ claims
\* a modify_file or delete_file call of c on f returns or raises in this step
WriteReturns(c, f) ==
    /\ InFlight(c) /\ rpc[c].op \in {"modify", "delete"} /\ rpc[c].filename = f
    /\ rpc'[c].pc = "ret"

\* C1: in every reachable state, every hash of a hashlist that read_file returns
\* (the one it would return now, and the ones it has returned to a caller) is
\* held by block store int(h, 16) mod N.
C1_ReadHashesOnOwningStore ==
    /\ \A f \in Files : \A h \in Range(read_file(name_file_map, f)[2]) :
          has_block(_find_server(h), h)
    /\ \A c \in Clients : (rpc[c].pc = "ret" /\ rpc[c].op = "read") =>
          \A h \in Range(rpc[c].rhl) : has_block(_find_server(h), h)

\* C1 witness: read_file returns a hashlist of two hashes that live on two stores
C1_Witness ==
    \E f \in Files :
        /\ read_file(name_file_map, f)[2] = <<Sha256(1), Sha256(2)>>
        /\ _find_server(Sha256(1)) # _find_server(Sha256(2))

\* C2: in every step the version read_file returns for a filename goes up by
\* exactly 1 when a modify_file or delete_file on it succeeds in that step, and
\* is unchanged otherwise (failed calls included): it never decreases.
C2_VersionAdvancesByOne ==
    [][\A f \in Files :
         LET v0 == read_file(name_file_map, f)[1]
             v1 == read_file(name_file_map', f)[1]
         IN IF \E c \in Clients : WriteReturns(c, f) /\ rpc'[c].res = "ok"
            THEN v1 = v0 + 1
            ELSE v1 = v0]_vars

\* C2 witness: a file at version 2 on which a call has just failed
C2_Witness ==
    \E f \in Files, c \in Clients :
        /\ read_file(name_file_map, f)[1] = 2
        /\ rpc[c].pc = "ret" /\ rpc[c].filename = f /\ rpc[c].res = "WrongVersion"

\* C3 (as claimed): of two concurrent modify_file calls on the same filename
\* with the same target version, exactly one succeeds.
C3_ExactlyOneSucceeds ==
    \A c \in Clients : (rpc[c].pc = "ret" /\ rpc[c].op = "modify") =>
        \A o \in rpc[c].peers : (o = "ok") # (rpc[c].res = "ok")

\* C3 (amended): of two concurrent modify_file calls on the same filename with
\* the same target version, at most one succeeds, and then the other fails
\* with WrongVersion.
C3_AtMostOneSucceeds ==
    \A c \in Clients : (rpc[c].pc = "ret" /\ rpc[c].op = "modify") =>
        /\ ("ok" \in rpc[c].peers => rpc[c].res = "WrongVersion")
        /\ (rpc[c].res = "ok" => "ok" \notin rpc[c].peers)

\* C3 witness: a call has failed with WrongVersion after a concurrent call with
\* the same filename and version succeeded
C3_Witness ==
    \E c \in Clients :
        /\ rpc[c].pc = "ret" /\ rpc[c].op = "modify"
        /\ "ok" \in rpc[c].peers /\ rpc[c].res = "WrongVersion"

\* C4: a modify_file call that fails (WrongVersion or MissingBlocks) leaves the
\* registry exactly as it found it: the same filenames have a record and every
\* record has the same version, hashlist and tombstone.
C4_FailedModifyChangesNothing ==
    [][\A c \in Clients :
         (/\ InFlight(c) /\ rpc[c].op = "modify" /\ rpc'[c].pc = "ret"
          /\ rpc'[c].res \in {"WrongVersion", "MissingBlocks"})
         => name_file_map' = (IF rpc[c].pc = "req" THEN name_file_map ELSE entry[c])]_vars

\* C5: in every reachable state a filename has a record iff a modify_file or
\* delete_file on it has succeeded, and every record has version >= 1.
C5_RecordIffSucceeded ==
    \A f \in Files :
        /\ f \in DOMAIN name_file_map <=> f \in succeeded
        /\ f \in DOMAIN name_file_map => name_file_map[f].ver >= 1

\* C6: delete_file on a filename for which no modify_file or delete_file has
\* succeeded fails with FileNotFound, and the client's delete then emits
\* Not Found.
C6_DeleteOfUnwrittenNotFound ==
    [][\A c \in Clients :
         /\ (/\ rpc[c].pc = "req" /\ rpc[c].op = "delete" /\ rpc'[c].pc = "ret"
             /\ rpc[c].filename \notin succeeded)
            => rpc'[c].res = "FileNotFound"
         /\ (/\ cl[c].pc = "delete_delete" /\ rpc[c].pc = "ret"
             /\ rpc[c].res = "FileNotFound" /\ cl'[c] # cl[c])
            => (cl'[c].pc = "idle" /\ cl'[c].out = "Not Found")]_vars

\* C7: while a successful modify_file(f, v, h) is the last successful write on
\* f, read_file(f) returns (v, h), whatever f was before (never written, live,
\* tombstoned), and v is the version read before plus 1.
C7_ReadAfterModify ==
    \A f \in Files : lastWrite[f].kind = "modify" =>
        /\ read_file(name_file_map, f) = <<lastWrite[f].ver, lastWrite[f].hashlist>>
        /\ lastWrite[f].ver = lastWrite[f].pver + 1

\* C7 witness: a two-chunk upload has succeeded on a tombstoned file
C7_Witness ==
    \E f \in Files :
        /\ lastWrite[f].kind = "modify" /\ lastWrite[f].prev = "delete"
        /\ lastWrite[f].hashlist = <<Sha256(1), Sha256(2)>>

\* C8: while a successful delete_file(f, v) is the last successful write on f,
\* read_file(f) returns (v, empty hashlist), whether f was live or tombstoned.
C8_ReadAfterDelete ==
    \A f \in Files : lastWrite[f].kind = "delete" =>
        read_file(name_file_map, f) = <<lastWrite[f].ver, <<>>>>

\* C8 witness: a tombstoned file that once had blocks has been deleted again
C8_Witness ==
    \E f \in Files :
        /\ lastWrite[f].kind = "delete" /\ lastWrite[f].prev = "delete"
        /\ name_file_map[f].hashlist # <<>>

\* C9: in every reachable state a record whose tombstone is true has an empty
\* stored hashlist.
C9_TombstoneHasEmptyHashlist ==
    \A f \in DOMAIN name_file_map :
        name_file_map[f].tombstone => name_file_map[f].hashlist = <<>>

\* C10: once store_block(h, b) has completed on a store, has_block(h) on it
\* returns true and get_block(h) returns the block of the most recent
\* store_block for h; get_block of a hash never stored fails, and the store
\* holds exactly the hashes that were stored.
C10_StoredBlocksReadable ==
    /\ \A s \in Stores : DOMAIN hash_block_map[s] = DOMAIN lastStored[s]
    /\ bsRes.op = "has" =>
          (bsRes.val = 1 <=> bsRes.h \in DOMAIN lastStored[bsRes.store])
    /\ bsRes.op = "get" =>
          IF bsRes.h \in DOMAIN lastStored[bsRes.store]
          THEN bsRes.res = "ok" /\ bsRes.val = lastStored[bsRes.store][bsRes.h]
          ELSE bsRes.res = "KeyError"

\* C10 witness: get_block has returned a block from a store that holds another
\* hash too, while another store is still empty
C10_Witness ==
    /\ bsRes.op = "get" /\ bsRes.res = "ok"
    /\ \E h \in DOMAIN lastStored[bsRes.store] : h # bsRes.h
    /\ \E s \in Stores : DOMAIN lastStored[s] = {}

\* C11: once a block store maps hash h to bytes b, every later state still maps
\* h to b: no step changes the bytes held under a stored hash, and no step
\* removes a stored hash.
C11_BlocksImmutable ==
    [][\A s \in Stores : \A h \in DOMAIN hash_block_map[s] :
          /\ h \in DOMAIN hash_block_map'[s]
          /\ hash_block_map'[s][h] = hash_block_map[s][h]]_vars

\* C12: a download that read the version an upload committed (no other write
\* to the filename since that upload) and scans an empty directory emits OK
\* and writes a file whose chunk sequence is the uploaded one, for every
\* uploaded content, the empty file included.
C12_RoundTrip ==
    [][\A c \in Clients :
          LET f == cl[c].filename IN
          /\ ( /\ cl[c].pc = "download_read" /\ rpc[c].pc = "ret"
               /\ DOMAIN cl[c].hash_block_dict = {}
               /\ lastWrite[f].kind = "modify" /\ lastWrite[f].ver = rpc[c].rver
               /\ cl'[c].pc = "idle" )
             => /\ cl'[c].out = "OK"
                /\ HashList(cl'[c].written) = lastWrite[f].hashlist
          /\ ( cl[c].pc = "download_get" /\ cl'[c].pc = "idle" )
             => /\ cl'[c].out = "OK"
                /\ HashList(cl'[c].written) = cl[c].file_block_hash_list]_vars

\* C13: under fair scheduling, with finitely many operations and no transport
\* failure, every upload that has started eventually ends with OK on stdout
\* (which upload prints only after a modify_file call of its own succeeded).
C13_UploadTerminates ==
    \A c \in Clients :
        (cl[c].op = "upload" /\ cl[c].pc # "idle")
            ~> (cl[c].pc = "idle" /\ cl[c].out = "OK")

\* C13 witness: an upload has been told WrongVersion after the other client's
\* operation on the file ended with OK, and has to retry
C13_Witness ==
    \E c, d \in Clients :
        /\ c # d /\ cl[d].pc = "idle" /\ cl[d].out = "OK"
        /\ cl[c].pc = "upload_modify" /\ rpc[c].pc = "ret"
        /\ rpc[c].res = "WrongVersion"

\* the stored version the race started from: the operations counted before any
\* client of the race started
RaceV0 == nops - Cardinality({c \in Clients : cl[c] # IdleCl})

\* a modify_file call of the upload of c has returned normally
RaceWon(c) ==
    \/ cl[c].pc = "idle" /\ cl[c].out = "OK"
    \/ cl[c].pc = "upload_modify" /\ rpc[c].pc = "ret" /\ rpc[c].res = "ok"

\* C14: when all clients upload the same filename from stored version v0 and
\* nothing else touches it, the stored version is always v0 plus the number of
\* uploads that have succeeded (each succeeds once); an upload that loses a
\* conflict is told WrongVersion with the version the winner committed and
\* calls modify_file again with that version plus one; and when all k uploads
\* have ended, read_file returns version v0 + k and the hashlist of the upload
\* that committed last.
C14_ConcurrentUploads ==
    /\ [](/\ read_file(name_file_map, "a")[1] =
                RaceV0 + Cardinality({c \in Clients : RaceWon(c)})
          /\ \A c \in Clients :
                (rpc[c].pc = "ret" /\ rpc[c].res = "WrongVersion")
                   => /\ lastWrite["a"].kind = "modify"
                      /\ rpc[c].rver = lastWrite["a"].ver
          /\ (\A c \in Clients : cl[c].pc = "idle" /\ cl[c].out = "OK")
                => read_file(name_file_map, "a") =
                      <<RaceV0 + Cardinality(Clients), lastWrite["a"].hashlist>>)
    /\ [][\A c \in Clients :
             (rpc[c].pc = "ret" /\ rpc[c].res = "WrongVersion" /\ rpc'[c] # rpc[c])
                => /\ rpc'[c].pc = "req" /\ rpc'[c].op = "modify"
                   /\ rpc'[c].version = rpc[c].rver + 1
                   /\ rpc'[c].hashlist = rpc[c].hashlist]_vars

\* C14 witness: starting from stored version 1, one upload has committed
\* version 2 and the other, with a different hashlist, has been told
\* WrongVersion(2)
C14_Witness ==
    \E c, d \in Clients :
        /\ RaceV0 = 1 /\ RaceWon(d)
        /\ rpc[c].pc = "ret" /\ rpc[c].res = "WrongVersion" /\ rpc[c].rver = 2
        /\ rpc[c].hashlist # lastWrite["a"].hashlist

\* C15: at most one metadata handler is inside the critical section at any
\* time: only the handler that holds the mutex is past its version test, and
\* from a modify_file's version test through its probes to its commit no other
\* handler leaves the wait for the mutex (none reads or returns anything) and
\* the registry changes only by that modify_file's own commit.
C15_MutualExclusion ==
    /\ [](/\ Cardinality({c \in Clients : rpc[c].pc = "probe"}) <= 1
          /\ \A c \in Clients : rpc[c].pc = "probe" <=> mutex = c)
    /\ [][\A c \in Clients : rpc[c].pc = "probe" =>
             /\ \A d \in Clients \ {c} :
                   rpc[d].pc = "req" => rpc'[d].pc = "req"
             /\ name_file_map' # name_file_map =>
                   rpc'[c].pc = "ret" /\ rpc'[c].res = "ok"]_vars

\* C15 witness: a modify_file is between two probes while a delete_file and
\* hence another handler on the same filename waits for the mutex
C15_Witness ==
    \E c, d \in Clients :
        /\ rpc[c].pc = "probe" /\ rpc[c].i = 2 /\ Len(rpc[c].hashlist) = 2
        /\ rpc[d].pc = "req" /\ rpc[d].op = "delete"
        /\ rpc[d].filename = rpc[c].filename

\* C16: an upload that starts when every one of its chunk hashes is held by
\* the owning store never gets MissingBlocks from modify_file (no probe of its
\* calls finds a block missing) and never enters _upload_missing_blocks, so it
\* issues no store_block call and leaves the block stores as they are.
C16_NoStoreWhenHeld ==
    \A c \in Clients :
        (cl[c].op = "upload" /\ cl[c].held)
           => /\ cl[c].pc # "upload_store"
              /\ rpc[c].res # "MissingBlocks"
              /\ rpc[c].ret_hashlist = <<>>

\* C16 witness: a non-empty upload whose chunks were all stored before has
\* committed, on a filename whose previous write was a delete
C16_Witness ==
    \E c \in Clients :
        /\ cl[c].op = "upload" /\ cl[c].held /\ cl[c].file_block_list # <<>>
        /\ cl[c].pc = "upload_modify" /\ rpc[c].pc = "ret" /\ rpc[c].res = "ok"
        /\ lastWrite[cl[c].filename].prev = "delete"

\* C17: the step in which a modify_file handler starts tests the version
\* first: if the call's version differs from the current stored version plus
\* one (current is 0 without a record) the call fails in that very step with
\* WrongVersion carrying exactly the current stored version, having asked
\* has_block about nothing; otherwise it goes on to the probes.  WrongVersion
\* is raised nowhere else in modify_file.
C17_VersionBeforeBlocks ==
    [][\A c \in Clients :
          LET current == read_file(name_file_map, rpc[c].filename)[1] IN
          /\ (rpc[c].op = "modify" /\ rpc[c].pc = "req" /\ rpc'[c].pc # "req")
                => IF rpc[c].version # current + 1
                   THEN /\ rpc'[c].pc = "ret" /\ rpc'[c].res = "WrongVersion"
                        /\ rpc'[c].rver = current
                        /\ rpc[c].probed = <<>>
                        /\ hash_block_map' = hash_block_map
                   ELSE rpc'[c].pc = "probe"
          /\ (rpc[c].op = "modify" /\ rpc[c].pc = "probe")
                => rpc'[c].res # "WrongVersion"]_vars

\* C17 witness: a modify_file whose hashlist names a block no store holds has
\* failed with WrongVersion carrying a stored version above 0
C17_Witness ==
    \E c \in Clients :
        /\ rpc[c].op = "modify" /\ rpc[c].pc = "ret"
        /\ rpc[c].res = "WrongVersion" /\ rpc[c].rver > 0
        /\ \E h \in Range(rpc[c].hashlist) :
              \A s \in Stores : h \notin DOMAIN hash_block_map[s]

JobHashes(todo) == {todo[k].h : k \in 1 .. Len(todo)}

\* C19: when an upload receives MissingBlocks(missing) the store_block calls
\* it queues are for exactly the hashes of missing; each step of
\* _upload_missing_blocks completes the first queued call, which puts the
\* chunk that hashes to h under h on store int(h,16) mod N and changes no
\* other store, and modify_file is called again only by the step that
\* completes the last queued call, with the version and the hashlist of the
\* failed call; and a modify_file succeeds only when every block of its
\* hashlist is on its owning store.
C19_StoreBeforeRetry ==
    [][\A c \in Clients :
          /\ (cl[c].pc = "upload_modify" /\ rpc[c].pc = "ret"
                /\ rpc[c].res = "MissingBlocks" /\ cl'[c] # cl[c])
                => /\ cl'[c].pc = "upload_store"
                   /\ JobHashes(cl'[c].todo) = Range(rpc[c].rhl)
                   /\ cl'[c].version_number = rpc[c].version
                   /\ cl'[c].file_block_hash_list = rpc[c].hashlist
                   /\ rpc'[c].pc # "req"
          /\ (cl[c].pc = "upload_store" /\ cl'[c] # cl[c])
                => LET job == Head(cl[c].todo) IN
                   /\ job.server = Owner(job.h)
                   /\ Sha256(job.block) = job.h
                   /\ job.h \in DOMAIN hash_block_map'[Owner(job.h)]
                   /\ hash_block_map'[Owner(job.h)][job.h] = job.block
                   /\ \A s \in Stores \ {Owner(job.h)} :
                         hash_block_map'[s] = hash_block_map[s]
                   /\ IF Len(cl[c].todo) > 1
                      THEN /\ cl'[c].pc = "upload_store"
                           /\ cl'[c].todo = Tail(cl[c].todo)
                           /\ rpc'[c].pc # "req"
                      ELSE /\ rpc'[c].pc = "req" /\ rpc'[c].op = "modify"
                           /\ rpc'[c].version = cl[c].version_number
                           /\ rpc'[c].hashlist = cl[c].file_block_hash_list
          /\ (rpc[c].op = "modify" /\ rpc[c].pc = "probe"
                /\ rpc'[c].pc = "ret" /\ rpc'[c].res = "ok")
                => \A h \in Range(rpc[c].hashlist) :
                      h \in DOMAIN hash_block_map[Owner(h)]]_vars

\* C19 witness: an upload of two different chunks has stored the first missing
\* block on its store and is about to store the second on the other store
C19_Witness ==
    \E c \in Clients :
        /\ cl[c].pc = "upload_store" /\ Len(cl[c].todo) = 1
        /\ \E h \in Range(cl[c].file_block_hash_list) :
              /\ Owner(h) # Owner(cl[c].todo[1].h)
              /\ h \in DOMAIN hash_block_map[Owner(h)]
              /\ \A s \in Stores : cl[c].todo[1].h \notin DOMAIN hash_block_map[s]

\* C20: the step in which download has the answer of read_file and has scanned
\* the destination directory ends the download with Not Found and no file
\* when the hashlist is empty (no get_block is ever issued); otherwise the
\* get_block calls it queues are only for hashes of the hashlist that no chunk
\* of the directory hashes to, each against store int(h,16) mod N.  Each later
\* step completes the first queued call and changes no store, and a download
\* that ends with OK has written, position by position, a chunk with the hash
\* the hashlist has there.
C20_DownloadFetchesOnlyMissing ==
    [][\A c \in Clients :
          /\ (cl[c].pc = "download_read" /\ rpc[c].pc = "ret" /\ cl'[c] # cl[c])
                => LET hl == rpc[c].rhl
                       local == DOMAIN cl[c].hash_block_dict
                   IN IF hl = <<>>
                      THEN /\ cl'[c].pc = "idle" /\ cl'[c].out = "Not Found"
                           /\ cl'[c].written = <<>>
                      ELSE /\ cl'[c].pc = "download_get" =>
                                /\ cl'[c].file_block_hash_list = hl
                                /\ JobHashes(cl'[c].todo) = Range(hl) \ local
                                /\ \A k \in 1 .. Len(cl'[c].todo) :
                                      cl'[c].todo[k].server = Owner(cl'[c].todo[k].h)
                           /\ cl'[c].pc = "idle" =>
                                /\ Range(hl) \subseteq local
                                /\ cl'[c].out = "OK"
                                /\ HashList(cl'[c].written) = hl
                           /\ cl'[c].pc \in {"download_get", "idle"}
          /\ (cl[c].pc = "download_get" /\ cl'[c] # cl[c])
                => /\ hash_block_map' = hash_block_map
                   /\ IF Len(cl[c].todo) > 1
                      THEN /\ cl'[c].pc = "download_get"
                           /\ cl'[c].todo = Tail(cl[c].todo)
                      ELSE /\ cl'[c].pc = "idle" /\ cl'[c].out = "OK"
                           /\ HashList(cl'[c].written) = cl[c].file_block_hash_list]_vars

\* C20 witness: a download of a two-chunk file into a directory that holds a
\* file with the first chunk has queued one get_block, for the second chunk
C20_Witness ==
    \E c \in Clients :
        /\ cl[c].pc = "download_get" /\ Len(cl[c].file_block_hash_list) = 2
        /\ Len(cl[c].todo) = 1
        /\ cl[c].file_block_hash_list[2] = cl[c].todo[1].h
        /\ DOMAIN cl[c].hash_block_dict = {cl[c].file_block_hash_list[1]}

\* C21: whenever a metadata call of a connection has returned or raised
\* (also a modify_file whose probe raised a transport error or a ValueError
\* for a hash that is not hex), that connection's handler does not hold the
\* registry mutex any more.
C21_MutexFreeAfterReturn ==
    \A c \in Clients : rpc[c].pc \in {"idle", "ret"} => mutex # c

\* C22: an upload that has completed a repair round (it was told
\* MissingBlocks and has stored the reported blocks) is never told
\* MissingBlocks again and never starts a second round, whatever other
\* uploads and deletes do to the record between its attempts: no probe of its
\* later calls finds a block missing.
C22_MissingBlocksAtMostOnce ==
    \A c \in Clients :
        (cl[c].op = "upload" /\ cl[c].repaired)
           => /\ cl[c].pc = "upload_modify"
              /\ rpc[c].res # "MissingBlocks"
              /\ rpc[c].ret_hashlist = <<>>

\* C22 witness: an upload that has repaired its blocks is told WrongVersion,
\* because the other client's delete of the same filename got in between
C22_Witness ==
    \E c \in Clients :
        /\ cl[c].op = "upload" /\ cl[c].repaired
        /\ rpc[c].pc = "ret" /\ rpc[c].res = "WrongVersion"
        /\ lastWrite[cl[c].filename].kind = "delete"

\* C23: the block calls a download (get_block) or a repair round of an upload
\* (store_block) still has to make never name the same hash twice, so each
\* distinct hash is fetched or stored at most once per download or round.
C23_EachHashOnce ==
    \A c \in Clients :
        cl[c].pc \in {"download_get", "upload_store"} =>
            \A j, k \in 1 .. Len(cl[c].todo) :
                j # k => cl[c].todo[j].h # cl[c].todo[k].h

\* C24: at any time every get_block call a download still has to make names
\* a hash that the store it will be sent to holds, with the chunk of that
\* hash, whatever other clients have done to the filename since the
\* download's read_file; every step of the download completes the first call
\* without error, and the download ends with OK and a written file whose
\* chunks have, position by position, the hashes read_file returned.
C24_DownloadSurvivesWrites ==
    /\ [](\A c \in Clients : cl[c].pc = "download_get" =>
             \A k \in 1 .. Len(cl[c].todo) :
                LET job == cl[c].todo[k] IN
                /\ job.h \in DOMAIN hash_block_map[job.server]
                /\ Sha256(hash_block_map[job.server][job.h]) = job.h)
    /\ [][\A c \in Clients :
             (cl[c].pc = "download_get" /\ cl'[c] # cl[c])
                => /\ get_block(Head(cl[c].todo).server, Head(cl[c].todo).h).res = "ok"
                   /\ cl'[c].pc = "idle" =>
                         /\ cl'[c].out = "OK"
                         /\ HashList(cl'[c].written) = cl[c].file_block_hash_list]_vars

\* C24 witness: a download still has a get_block to make for a file that the
\* other client has deleted since the download's read_file
C24_Witness ==
    \E c \in Clients :
        /\ cl[c].pc = "download_get"
        /\ lastWrite[cl[c].filename].kind = "delete"
        /\ read_file(name_file_map, cl[c].filename)[2] = <<>>

=============================================================================
